---------------------------- MODULE Spec2Model ----------------------------
(***************************************************************************)
(* Local Config addon: the JSON-backed settings storage                    *)
(* (client/ayon_local_config/storage.py), the environment-variable         *)
(* registry (client/ayon_local_config/environment_registry.py), the addon  *)
(* life cycle (client/ayon_local_config/addon.py) and the sandbox          *)
(* migration (plugins/actions/action_set_ayon_sandbox_path.py).            *)
(***************************************************************************)
EXTENDS Naturals, Sequences, FiniteSets, TLC

(***************************************************************************)
(* Bounds of the model.                                                    *)
(***************************************************************************)
\* how many writes of the config file may fail (open(..., "w") raising)
MaxFaults == 1
\* how many times the host process loads the addon
MaxSessions == 2
\* largest file size, in bytes, in a sandbox tree
MaxFileSize == 2
\* how many callbacks are registered for one action name
MaxCallbacks == 2

(***************************************************************************)
(* Names and values.                                                       *)
(***************************************************************************)
SandboxVar == "AYON_LOCAL_SANDBOX"
UnityVar == "AYON_UNITY_PROJECT"
OtherVar == "MY_VAR"
Names == {SandboxVar, UnityVar, OtherVar}

\* the marker of a name that is not set / a key that is not present
Absent == "<absent>"
\* two strings os.environ accepts; as sandbox paths they name directories
PathA == "/a"
PathB == "/b"
GoodValues == {PathA, PathB}
\* a value os.environ refuses: not a str (TypeError), or a str with a NUL
\* byte (ValueError)
BadValue == "<not-a-str>"
\* str(var_data) of a nested record that has no 'value' field
ReprValue == "{'description': ''}"
RegValues == GoodValues \cup {BadValue}

\* where a storage keeps its file: ~/.ayon/settings or <sandbox>/settings
Home == "~/.ayon"
Locs == {Home, PathA}

Projects == {"default", "proj"}
Groups == {"user_settings"}
\* the two setting ids tray_init looks for (addon.py lines 97 and 102)
SandboxSetting == "ayon_sandbox_folder"
UnitySetting == "unity_project_path"
Settings == {SandboxSetting, UnitySetting}
NoProject == "<None>"

(***************************************************************************)
(* Python dicts keep insertion order: a dict is a sequence of entries with *)
(* distinct names.                                                         *)
(***************************************************************************)
Range(s) == {s[i] : i \in 1..Len(s)}

DictKeys(d) == {d[i].name : i \in 1..Len(d)}

DictHas(d, k) == k \in DictKeys(d)

DictIndex(d, k) == CHOOSE i \in 1..Len(d) : d[i].name = k

DictGet(d, k) == IF DictHas(d, k) THEN d[DictIndex(d, k)].value ELSE Absent

\* d[k] = v: an existing key keeps its place, a new key goes last
DictSet(d, k, v) ==
    IF DictHas(d, k)
    THEN [d EXCEPT ![DictIndex(d, k)] = [name |-> k, value |-> v]]
    ELSE Append(d, [name |-> k, value |-> v])

\* del d[k]
DictDel(d, k) ==
    IF DictHas(d, k)
    THEN LET i == DictIndex(d, k)
         IN  SubSeq(d, 1, i - 1) \o SubSeq(d, i + 1, Len(d))
    ELSE d

(***************************************************************************)
(* Setting values.  A Python value is [t, d]: its type and its items; the  *)
(* JSON text of it is [j, d].  json.dump writes a tuple as an array and    *)
(* json.loads reads every array as a list.                                 *)
(***************************************************************************)
PyStr(s) == [t |-> "str", d |-> <<s>>]
PyList(s) == [t |-> "list", d |-> s]
PyTuple(s) == [t |-> "tuple", d |-> s]
PyNone == [t |-> "none", d |-> <<>>]

\* the JSON-serialisable values a caller may pass
PyValues == {PyStr("x"), PyList(<<"x">>), PyTuple(<<"x">>)}

NoJson == [j |-> "absent", d |-> <<>>]

JsonDump(v) ==
    CASE v.t = "str" -> [j |-> "string", d |-> v.d]
      [] v.t = "list" -> [j |-> "array", d |-> v.d]
      [] v.t = "tuple" -> [j |-> "array", d |-> v.d]
      [] OTHER -> [j |-> "null", d |-> <<>>]

JsonLoad(x) ==
    CASE x.j = "string" -> [t |-> "str", d |-> x.d]
      [] x.j = "array" -> [t |-> "list", d |-> x.d]
      [] OTHER -> PyNone

JsonRoundTrip(v) == JsonLoad(JsonDump(v))

(***************************************************************************)
(* The config file.                                                        *)
(***************************************************************************)
NoGroup == [present |-> FALSE, settings |-> [s \in Settings |-> NoJson]]
EmptyGroup == [present |-> TRUE, settings |-> [s \in Settings |-> NoJson]]
NoProjectCfg == [present |-> FALSE, groups |-> [g \in Groups |-> NoGroup]]
EmptyProjectCfg == [present |-> TRUE, groups |-> [g \in Groups |-> NoGroup]]

\* storage.py _initialize_default_config: the default structure
DefaultConfig ==
    [projects |-> [p \in Projects |-> NoProjectCfg],
     environment_variables |-> <<>>,
     last_selected_project |-> NoProject]

\* a file is missing, empty, unparseable ("corrupt") or holds a config
MissingFile == [kind |-> "missing", config |-> DefaultConfig]
EmptyFile == [kind |-> "empty", config |-> DefaultConfig]
CorruptFile == [kind |-> "corrupt", config |-> DefaultConfig]
JsonFile(cfg) == [kind |-> "json", config |-> cfg]

VARIABLES
    files,      \* files[loc]: <loc>/settings/localconfig.json
    dirs,       \* dirs[loc]: whether the directory <loc>/settings exists
    roots,      \* roots[loc]: whether the sandbox directory <loc> exists
    env,        \* os.environ
    loaded,     \* whether the global registry has been constructed
    storageLoc, \* the location the registry's storage is bound to
    registered, \* EnvironmentVariableRegistry._registered_vars
    callbacks,  \* EnvironmentVariableRegistry._action_callbacks: per action
                \* name, how many callbacks its list holds
    last,       \* the last call made and what it returned
    mode,       \* per name, how the registry's entry came from a register call:
                \* "persistent", "transient" (persistent=False) or "none"
    faults,     \* failed writes so far
    session,    \* how many times the addon has been loaded
    expected,   \* per name, the value persistent registrations of earlier
                \* sessions promised
    tree,       \* sandbox migration: the source and destination trees
    copied      \* sandbox migration: the outcome of _copy_sandbox_files

vars == <<files, dirs, roots, env, loaded, storageLoc, registered, callbacks,
          last, mode, faults, session, expected, tree, copied>>


(***************************************************************************)
(* LocalConfigStorage: reading and writing the file.                       *)
(***************************************************************************)
\* LocalConfigStorage.__init__: the sandbox the config directory lies in
ConfigLocation(e) == IF e[SandboxVar] = Absent THEN Home ELSE e[SandboxVar]

\* open(config_file, "w") succeeds: the directory is there and the write is
\* not refused (ok = FALSE: permission denied, read-only or full disk)
CanWrite(loc, ok) == ok /\ dirs[loc]

\* save_config: the file after the call (it returns w)
AfterSave(f, cfg, w) == IF w THEN JsonFile(cfg) ELSE f

\* load_config: what it returns; a missing, empty or unparseable file gives
\* the default structure
LoadedConfig(f) == IF f.kind = "json" THEN f.config ELSE DefaultConfig

\* load_config: the file after the call; _initialize_default_config saves
\* the default structure whenever the file could not be used
AfterLoad(f, w) == IF f.kind = "json" THEN f ELSE AfterSave(f, DefaultConfig, w)

\* get_setting_value(group_id, setting_id) of a storage bound to project p
GetSettingValue(f, p, g, s) ==
    LET pc == LoadedConfig(f).projects[p]
    IN  IF pc.present /\ pc.groups[g].present /\ pc.groups[g].settings[s] # NoJson
        THEN JsonLoad(pc.groups[g].settings[s])
        ELSE PyNone

\* get_project_config(project_name): {} for a project that is not stored
GetProjectConfig(f, p) ==
    LET pc == LoadedConfig(f).projects[p]
    IN  IF pc.present THEN pc ELSE EmptyProjectCfg

\* a faulty set_setting_value: the group is replaced by one that holds the
\* new value only
WithSettingAlone(cfg, p, g, s, v) ==
    LET pc == IF cfg.projects[p].present THEN cfg.projects[p] ELSE EmptyProjectCfg
        gc2 == [EmptyGroup EXCEPT !.settings[s] = JsonDump(v)]
    IN  [cfg EXCEPT !.projects[p] = [pc EXCEPT !.groups[g] = gc2]]

\* set_setting_value, lines 116-122: the config with the value put in
WithSetting(cfg, p, g, s, v) ==
    LET pc == IF cfg.projects[p].present THEN cfg.projects[p] ELSE EmptyProjectCfg
        gc == IF pc.groups[g].present THEN pc.groups[g] ELSE EmptyGroup
        gc2 == [gc EXCEPT !.settings[s] = JsonDump(v)]
    IN  [cfg EXCEPT !.projects[p] = [pc EXCEPT !.groups[g] = gc2]]

\* the dicts a caller passes as a whole group: per setting a value or nothing
PyMissing == [t |-> "missing", d |-> <<>>]
GroupInputs ==
    {[s \in Settings |-> PyMissing],
     [s \in Settings |-> IF s = SandboxSetting THEN PyTuple(<<"x">>) ELSE PyMissing],
     [s \in Settings |-> PyStr("x")]}

DumpGroup(gi) ==
    [present |-> TRUE,
     settings |-> [s \in Settings |->
                      IF gi[s] = PyMissing THEN NoJson ELSE JsonDump(gi[s])]]

\* set_group_config, lines 136-140
WithGroup(cfg, p, g, gi) ==
    LET pc == IF cfg.projects[p].present THEN cfg.projects[p] ELSE EmptyProjectCfg
    IN  [cfg EXCEPT !.projects[p] = [pc EXCEPT !.groups[g] = DumpGroup(gi)]]

\* the dicts a caller passes as a whole project: no group, or one group
ProjectInputs ==
    {[g \in Groups |-> PyMissing]} \cup
    {[g \in Groups |-> gi] : gi \in {[s \in Settings |-> PyMissing],
                                      [s \in Settings |-> PyList(<<"x">>)]}}

DumpProject(pi) ==
    [present |-> TRUE,
     groups |-> [g \in Groups |->
                    IF pi[g] = PyMissing THEN NoGroup ELSE DumpGroup(pi[g])]]

\* set_project_config, lines 218-220
WithProject(cfg, p, pi) == [cfg EXCEPT !.projects[p] = DumpProject(pi)]

\* a faulty delete_project: the remembered selection is dropped along with
\* the project
WithoutProjectAndSelection(cfg, p) ==
    [cfg EXCEPT !.projects[p] = NoProjectCfg,
                !.last_selected_project = NoProject]

\* delete_project, line 227
WithoutProject(cfg, p) == [cfg EXCEPT !.projects[p] = NoProjectCfg]

\* one call on a storage at loc that loads, changes the config and saves
Stored(loc, cfg, ok) ==
    LET w == CanWrite(loc, ok)
    IN  files' = [files EXCEPT ![loc] = AfterSave(AfterLoad(@, w), cfg, w)]

\* a write that fails (only a call that writes can meet one) uses up the
\* budget of faults
Fault(ok, writes) ==
    /\ ok \/ (writes /\ faults < MaxFaults)
    /\ faults' = IF ok THEN faults ELSE faults + 1

\* the actions a callback may be registered for
ActionNames == {"SetUnityProjectAction", "SetEnvVarAction"}

\* EnvironmentVariableRegistry.__init__, line 26: no callbacks
NoCallbacks == [a \in ActionNames |-> 0]

\* a call: what was called with what, what it returned, and the action
\* names whose callbacks it invoked
NoCall ==
    [op |-> "none", name |-> Absent, value |-> Absent, persistent |-> FALSE,
     ret |-> FALSE, project |-> NoProject, group |-> Absent, pyvalue |-> PyNone,
     again |-> FALSE, called |-> {}]

Call(op, ret) == [NoCall EXCEPT !.op = op, !.ret = ret]

StorageCall(op, p, g, s, v, ret) ==
    [NoCall EXCEPT !.op = op, !.ret = ret, !.project = p, !.group = g,
                   !.name = s, !.pyvalue = v]

RegistryFrame == UNCHANGED <<env, loaded, storageLoc, registered, mode>>
SessionFrame == UNCHANGED <<session, expected, callbacks>>
CopyFrame == UNCHANGED <<roots, tree, copied>>

(***************************************************************************)
(* LocalConfigStorage: the operations.                                     *)
(***************************************************************************)
SetSettingValue(loc, p, g, s, v, ok) ==
    /\ Fault(ok, TRUE)
    /\ Stored(loc, WithSetting(LoadedConfig(files[loc]), p, g, s, v), ok)
    /\ last' = StorageCall("set_setting_value", p, g, s, v, CanWrite(loc, ok))
    /\ UNCHANGED dirs /\ RegistryFrame /\ SessionFrame /\ CopyFrame

SetGroupConfig(loc, p, g, gi, ok) ==
    /\ Fault(ok, TRUE)
    /\ Stored(loc, WithGroup(LoadedConfig(files[loc]), p, g, gi), ok)
    /\ last' = StorageCall("set_group_config", p, g, Absent, PyNone, CanWrite(loc, ok))
    /\ UNCHANGED dirs /\ RegistryFrame /\ SessionFrame /\ CopyFrame

\* reset_group_to_defaults is set_group_config with the default values
ResetGroupToDefaults(loc, p, g, gi, ok) ==
    /\ Fault(ok, TRUE)
    /\ Stored(loc, WithGroup(LoadedConfig(files[loc]), p, g, gi), ok)
    /\ last' = StorageCall("reset_group_to_defaults", p, g, Absent, PyNone,
                           CanWrite(loc, ok))
    /\ UNCHANGED dirs /\ RegistryFrame /\ SessionFrame /\ CopyFrame

SetProjectConfig(loc, p, pi, ok) ==
    /\ Fault(ok, TRUE)
    /\ Stored(loc, WithProject(LoadedConfig(files[loc]), p, pi), ok)
    /\ last' = StorageCall("set_project_config", p, Absent, Absent, PyNone,
                           CanWrite(loc, ok))
    /\ UNCHANGED dirs /\ RegistryFrame /\ SessionFrame /\ CopyFrame

\* delete_project, lines 223-229: a stored project is removed and the config
\* saved; for a project that is not stored it returns True after the load
\* ('again' marks this case: there was nothing left to delete)
DeleteProject(loc, p, ok) ==
    /\ Fault(ok, files[loc].kind # "json" \/ LoadedConfig(files[loc]).projects[p].present)
    /\ LET w == CanWrite(loc, ok)
           cfg == LoadedConfig(files[loc])
       IN  IF cfg.projects[p].present
           THEN /\ Stored(loc, WithoutProject(cfg, p), ok)
                /\ last' = StorageCall("delete_project", p, Absent, Absent, PyNone, w)
           ELSE /\ files' = [files EXCEPT ![loc] = AfterLoad(@, w)]
                /\ last' = [StorageCall("delete_project", p, Absent, Absent,
                                        PyNone, TRUE)
                               EXCEPT !.again = TRUE]
    /\ UNCHANGED dirs /\ RegistryFrame /\ SessionFrame /\ CopyFrame

SetLastSelectedProject(loc, p, ok) ==
    /\ Fault(ok, TRUE)
    /\ Stored(loc, [LoadedConfig(files[loc]) EXCEPT !.last_selected_project = p], ok)
    /\ last' = StorageCall("set_last_selected_project", p, Absent, Absent, PyNone,
                           CanWrite(loc, ok))
    /\ UNCHANGED dirs /\ RegistryFrame /\ SessionFrame /\ CopyFrame

\* get_setting_value reads through load_config, which may write the default
GetSetting(loc, p, g, s, ok) ==
    /\ Fault(ok, files[loc].kind # "json")
    /\ files' = [files EXCEPT ![loc] = AfterLoad(@, CanWrite(loc, ok))]
    /\ last' = StorageCall("get_setting_value", p, g, s,
                           GetSettingValue(files[loc], p, g, s), TRUE)
    /\ UNCHANGED dirs /\ RegistryFrame /\ SessionFrame /\ CopyFrame

(***************************************************************************)
(* EnvironmentVariableRegistry.  A stored entry of environment_variables   *)
(* is flat (name: value), or a legacy nested record with a 'value' field   *)
(* ("nested"), or a nested record without one ("novalue").                 *)
(***************************************************************************)
Flat(n, v) == [name |-> n, value |-> v, form |-> "flat"]
Nested(n, v) == [name |-> n, value |-> v, form |-> "nested"]
NoValue(n) == [name |-> n, value |-> Absent, form |-> "novalue"]

\* isinstance(var_data, dict)
IsDict(e) == e.form # "flat"

\* a faulty migration: every nested record becomes the text of the record
MigrateEntryAsText(e) ==
    [name |-> e.name,
     value |-> IF e.form = "flat" THEN e.value ELSE ReprValue]

\* _migrate_environment_variables, lines 55-68: one entry
MigrateEntry(e) ==
    [name |-> e.name,
     value |-> CASE e.form = "nested" -> e.value
                 [] e.form = "novalue" -> ReprValue
                 [] OTHER -> e.value]

\* _migrate_environment_variables, lines 53-68: the migrated dict
Migrate(envVars) == [i \in 1..Len(envVars) |-> MigrateEntry(envVars[i])]

\* _migrate_environment_variables, line 71: whether the result is saved
NeedsMigration(envVars) == \E i \in 1..Len(envVars) : IsDict(envVars[i])

\* config['environment_variables'] = self._registered_vars, as json.dump
\* writes it
DumpVars(reg) == [i \in 1..Len(reg) |-> Flat(reg[i].name, reg[i].value)]

\* os.environ[name] = value raises unless value is a str without NUL
EnvAccepts(v) == v # BadValue

\* restore_environment_variables, lines 214-217: the loop sets the variables
\* in dict order; the first value os.environ refuses raises and ends it
RECURSIVE RestoreFrom(_, _, _)
RestoreFrom(reg, i, e) ==
    IF i > Len(reg) THEN e
    ELSE IF ~EnvAccepts(reg[i].value) THEN e
    ELSE RestoreFrom(reg, i + 1, [e EXCEPT ![reg[i].name] = reg[i].value])

\* a faulty restore: a variable that already holds its value is removed
RestoreEnvToggling(reg, e) ==
    [n \in Names |->
        IF DictHas(reg, n) /\ EnvAccepts(DictGet(reg, n))
        THEN IF e[n] = DictGet(reg, n) THEN Absent ELSE DictGet(reg, n)
        ELSE e[n]]

RestoreEnv(reg, e) == RestoreFrom(reg, 1, e)

\* _save_registered_variables, line 91: the config with the registry's dict
WithVars(cfg, reg) == [cfg EXCEPT !.environment_variables = DumpVars(reg)]

\* a faulty save of the registry: the file is written anew with the
\* variables only
SaveVarsAlone(loc, reg, ok) ==
    Stored(loc, [DefaultConfig EXCEPT !.environment_variables = DumpVars(reg)], ok)

\* _save_registered_variables / _save_migrated_variables: load_config, put
\* the dict under 'environment_variables', save_config; nothing is returned
SaveVars(loc, reg, ok) ==
    Stored(loc, WithVars(LoadedConfig(files[loc]), reg), ok)

RegistryCall(op, n, v, p, ret) ==
    [NoCall EXCEPT !.op = op, !.name = n, !.value = v, !.persistent = p, !.ret = ret]

\* the registry exists and its storage is at storageLoc
Loaded == loaded

\* register_environment_variable, lines 118-134: what it does to the
\* registry, the environment and the file; RegisterReturns is its result
RegisterEffect(n, v, p, ok) ==
    /\ registered' = DictSet(registered, n, v)
    /\ IF EnvAccepts(v)
       THEN /\ env' = [env EXCEPT ![n] = v]
            /\ IF p THEN SaveVars(storageLoc, registered', ok)
                    ELSE UNCHANGED files
            /\ mode' = [mode EXCEPT ![n] = IF p THEN "persistent" ELSE "transient"]
       ELSE /\ UNCHANGED <<env, files>>
            /\ mode' = [mode EXCEPT ![n] = "none"]

RegisterReturns(v) == EnvAccepts(v)

\* register_environment_variable(var_name, value, persistent)
RegisterEnvironmentVariable(n, v, p, ok) ==
    /\ Loaded
    /\ Fault(ok, p /\ EnvAccepts(v))
    /\ RegisterEffect(n, v, p, ok)
    /\ last' = RegistryCall("register", n, v, p, RegisterReturns(v))
    /\ UNCHANGED <<dirs, loaded, storageLoc>> /\ SessionFrame /\ CopyFrame

\* a faulty unregister: the membership test of line 148 is left out
UnregisterEffectUnguarded(n, ok) ==
    /\ env' = [env EXCEPT ![n] = Absent]
    /\ registered' = DictDel(registered, n)
    /\ SaveVars(storageLoc, registered', ok)
    /\ mode' = [mode EXCEPT ![n] = "none"]

\* unregister_environment_variable, lines 148-167
UnregisterEffect(n, ok) ==
    IF ~DictHas(registered, n)
    THEN UNCHANGED <<registered, env, files, mode>>
    ELSE /\ env' = [env EXCEPT ![n] = Absent]
         /\ registered' = DictDel(registered, n)
         /\ SaveVars(storageLoc, registered', ok)
         /\ mode' = [mode EXCEPT ![n] = "none"]

UnregisterReturns(n) == DictHas(registered, n)

\* unregister_environment_variable(var_name)
UnregisterEnvironmentVariable(n, ok) ==
    /\ Loaded
    /\ Fault(ok, DictHas(registered, n))
    /\ UnregisterEffect(n, ok)
    /\ last' = RegistryCall("unregister", n, Absent, FALSE, UnregisterReturns(n))
    /\ UNCHANGED <<dirs, loaded, storageLoc>> /\ SessionFrame /\ CopyFrame

\* update_environment_variable(var_name, new_value)
UpdateEnvironmentVariable(n, v, ok) ==
    /\ Loaded
    /\ Fault(ok, DictHas(registered, n) /\ EnvAccepts(v))
    /\ IF ~DictHas(registered, n)
       THEN /\ UNCHANGED <<registered, env, files, mode>>
            /\ last' = RegistryCall("update", n, v, FALSE, FALSE)
       ELSE /\ registered' = DictSet(registered, n, v)
            /\ IF EnvAccepts(v)
               THEN /\ env' = [env EXCEPT ![n] = v]
                    /\ SaveVars(storageLoc, registered', ok)
                    /\ last' = RegistryCall("update", n, v, FALSE, TRUE)
                    /\ UNCHANGED mode
               ELSE /\ UNCHANGED <<env, files>>
                    /\ last' = RegistryCall("update", n, v, FALSE, FALSE)
                    /\ mode' = [mode EXCEPT ![n] = "none"]
    /\ UNCHANGED <<dirs, loaded, storageLoc>> /\ SessionFrame /\ CopyFrame

\* clear_all_variables()
ClearAllVariables(ok) ==
    /\ Loaded
    /\ Fault(ok, TRUE)
    /\ env' = [n \in Names |-> IF DictHas(registered, n) THEN Absent ELSE env[n]]
    /\ registered' = <<>>
    /\ SaveVars(storageLoc, registered', ok)
    /\ mode' = [n \in Names |-> "none"]
    /\ last' = RegistryCall("clear", Absent, Absent, FALSE, TRUE)
    /\ UNCHANGED <<dirs, loaded, storageLoc>> /\ SessionFrame /\ CopyFrame

\* restore_environment_variables()
RestoreEnvironmentVariables ==
    /\ Loaded
    /\ env' = RestoreEnv(registered, env)
    /\ last' = [Call("restore", TRUE) EXCEPT
                  !.again = last.op \in {"restore", "initialize"}]
    /\ UNCHANGED <<files, dirs, loaded, storageLoc, registered, mode, faults>>
    /\ SessionFrame /\ CopyFrame

\* EnvironmentVariableRegistry.__init__ on a storage at loc whose directory
\* exists: the file after _load_registered_variables
AfterConstruct(f, w) ==
    LET envVars == LoadedConfig(f).environment_variables
        f1 == AfterLoad(f, w)
    IN  IF NeedsMigration(envVars)
        THEN AfterSave(AfterLoad(f1, w),
                       [LoadedConfig(f1) EXCEPT
                          !.environment_variables = DumpVars(Migrate(envVars))],
                       w)
        ELSE f1

\* LocalConfigAddon.initialize with the addon enabled: a storage at the
\* sandbox of the moment (its directory is created), the global registry
\* built from it, and the variables restored
Initialize(ok) ==
    /\ ~loaded
    /\ session < MaxSessions
    /\ Fault(ok, LET f == files[ConfigLocation(env)] IN f.kind # "json" \/ NeedsMigration(LoadedConfig(f).environment_variables))
    /\ LET loc == ConfigLocation(env)
           reg == Migrate(LoadedConfig(files[loc]).environment_variables)
       IN  /\ dirs' = [dirs EXCEPT ![loc] = TRUE]
           /\ roots' = [roots EXCEPT ![loc] = TRUE]
           /\ files' = [files EXCEPT ![loc] = AfterConstruct(@, ok)]
           /\ storageLoc' = loc
           /\ registered' = reg
           /\ env' = RestoreEnv(reg, env)
    /\ loaded' = TRUE
    /\ session' = session + 1
    /\ last' = Call("initialize", TRUE)
    /\ callbacks' = NoCallbacks
    /\ UNCHANGED <<mode, expected, tree, copied>>

\* SetUnityProjectAction.execute_with_config: with "Auto Open Unity Project"
\* on, the project path (when configured and existing) is registered; with
\* it off the variable is unregistered and, when the registry refuses, the
\* variable is removed from os.environ directly
SetUnityProject(autoOpen, path, exists, ok) ==
    /\ Loaded
    /\ Fault(ok, IF autoOpen THEN path # Absent /\ exists ELSE DictHas(registered, UnityVar))
    /\ IF autoOpen
       THEN IF path = Absent \/ ~exists
            THEN UNCHANGED <<registered, env, files, mode>>
            ELSE RegisterEffect(UnityVar, path, TRUE, ok)
       ELSE IF UnregisterReturns(UnityVar)
            THEN UnregisterEffect(UnityVar, ok)
            ELSE /\ env' = [env EXCEPT ![UnityVar] = Absent]
                 /\ UNCHANGED <<registered, files, mode>>
    /\ last' = RegistryCall("set_unity_project", UnityVar, path, autoOpen, TRUE)
    /\ UNCHANGED <<dirs, loaded, storageLoc>> /\ SessionFrame /\ CopyFrame

(***************************************************************************)
(* The registry on its own: one load of the addon over any stored map      *)
(* (flat, legacy or mixed) and any prior environment, then any calls.      *)
(***************************************************************************)
SpecNames == {UnityVar, OtherVar}

\* the stored forms one name may have when the addon loads
StoredForms(n) == {Flat(n, PathA), Nested(n, PathB), NoValue(n)}

InitEnvMaps ==
    {<<>>}
    \cup {<<e>> : e \in UNION {StoredForms(n) : n \in SpecNames}}
    \cup {<<e1, e2>> : e1 \in StoredForms(UnityVar), e2 \in StoredForms(OtherVar)}
    \cup {<<e2, e1>> : e1 \in StoredForms(UnityVar), e2 \in StoredForms(OtherVar)}

\* settings some project already holds when the addon loads
SomeProjects ==
    [p \in Projects |->
        IF p = "proj"
        THEN DumpProject([g \in Groups |-> [s \in Settings |-> PyStr("x")]])
        ELSE NoProjectCfg]

InitFiles ==
    {MissingFile, EmptyFile, CorruptFile}
    \cup {JsonFile([projects |-> SomeProjects, environment_variables |-> m,
                    last_selected_project |-> "proj"]) : m \in InitEnvMaps}

PriorEnvs(names) ==
    {e \in [Names -> {PathB, Absent}] :
        \A n \in Names \ names : e[n] = Absent}

NoTree == <<>>

InitCommon ==
    /\ dirs = [loc \in Locs |-> loc = Home]
    /\ roots = [loc \in Locs |-> TRUE]
    /\ loaded = FALSE
    /\ storageLoc = Home
    /\ registered = <<>>
    /\ callbacks = NoCallbacks
    /\ last = NoCall
    /\ mode = [n \in Names |-> "none"]
    /\ faults = 0
    /\ session = 0
    /\ expected = [n \in Names |-> Absent]

Init ==
    /\ InitCommon
    /\ \E f \in InitFiles :
          files = [loc \in Locs |-> IF loc = Home THEN f ELSE MissingFile]
    /\ env \in PriorEnvs(SpecNames)
    /\ tree = NoTree
    /\ copied = "none"

Next ==
    \/ \E ok \in BOOLEAN : Initialize(ok)
    \/ \E n \in SpecNames, v \in RegValues, p \in BOOLEAN, ok \in BOOLEAN :
          RegisterEnvironmentVariable(n, v, p, ok)
    \/ \E n \in SpecNames, ok \in BOOLEAN : UnregisterEnvironmentVariable(n, ok)
    \/ \E n \in SpecNames, v \in RegValues, ok \in BOOLEAN :
          UpdateEnvironmentVariable(n, v, ok)
    \/ \E ok \in BOOLEAN : ClearAllVariables(ok)
    \/ RestoreEnvironmentVariables
    \/ \E path \in {PathA, Absent}, exists \in BOOLEAN, ok \in BOOLEAN :
          SetUnityProject(TRUE, path, exists, ok)
    \/ \E ok \in BOOLEAN : SetUnityProject(FALSE, Absent, FALSE, ok)

Spec == Init /\ [][Next]_vars

(***************************************************************************)
(* Properties of the registry, checked under Spec.                         *)
(***************************************************************************)
\* the environment_variables map a load of the registry's file returns
StoredEnv == LoadedConfig(files[storageLoc]).environment_variables

\* every registered name is set in os.environ to its registered value
InSync == \A i \in 1..Len(registered) : env[registered[i].name] = registered[i].value

\* C2: restore_environment_variables is idempotent: a restore that directly
\* follows a restore (initialize ends with one) leaves os.environ as it is,
\* and no restore changes the registry map or the stored config.
C2_RestoreIdempotent ==
    [][last'.op = "restore" =>
          /\ registered' = registered
          /\ files' = files
          /\ last.op \in {"restore", "initialize"} => env' = env]_vars

\* C2 witness: a second restore in a row, over a registry of two variables
\* of which at least one is set in the environment.
C2_Witness ==
    /\ last.op = "restore"
    /\ last.again
    /\ Len(registered) = 2
    /\ \E i \in 1..2 : env[registered[i].name] = registered[i].value

C5_EnvInSync ==
    loaded =>
        /\ InSync
        /\ (last.op = "unregister" /\ last.ret) => env[last.name] = Absent

\* C8: when register_environment_variable(name, value, persistent=True)
\* returns True the stored environment_variables map holds name: value.
C8_RegisterTrueMeansStored ==
    (last.op = "register" /\ last.persistent /\ last.ret) =>
        DictGet(StoredEnv, last.name) = last.value

\* C9: no call writes to the stored map the value of a name whose current
\* registration was made with persistent=False.
C9_TransientNeverStored ==
    [][\A n \in Names :
          mode'[n] = "transient" =>
              \/ DictGet(StoredEnv, n)' = DictGet(StoredEnv, n)
              \/ DictGet(StoredEnv, n)' = Absent]_vars

\* C10: update and unregister of a name that is not registered return False
\* and change neither the registry map, nor os.environ, nor the stored config.
C10_UnknownNameRefused ==
    [][(last'.op \in {"update", "unregister"} /\ ~DictHas(registered, last'.name)) =>
          /\ last'.ret = FALSE
          /\ registered' = registered
          /\ env' = env
          /\ files' = files]_vars

\* C10 witness: a call on an unregistered name was refused while that name
\* is set in os.environ, where it stays.
C10_Witness ==
    /\ last.op \in {"update", "unregister"}
    /\ ~last.ret
    /\ ~DictHas(registered, last.name)
    /\ env[last.name] \in GoodValues

\* C11: unregister_environment_variable on a registered name returns True,
\* and afterwards the name is in neither the registry map, nor os.environ,
\* nor the stored environment_variables map, while every other registered
\* name keeps its value in all three.
C11_UnregisterRemovesEverywhere ==
    [][(last'.op = "unregister" /\ DictHas(registered, last'.name)) =>
          /\ last'.ret
          /\ ~DictHas(registered', last'.name)
          /\ env'[last'.name] = Absent
          /\ ~DictHas(StoredEnv', last'.name)
          /\ \A m \in DictKeys(registered) \ {last'.name} :
                /\ DictGet(registered', m) = DictGet(registered, m)
                /\ env'[m] = env[m]
                /\ DictGet(StoredEnv', m) = DictGet(StoredEnv, m)]_vars

(***************************************************************************)
(* The settings storage with the registry beside it, on one file: any      *)
(* storage call for any project, and the registry registering and          *)
(* unregistering one variable.                                             *)
(***************************************************************************)
StorageInitFiles ==
    {MissingFile, EmptyFile, CorruptFile,
     JsonFile([projects |-> SomeProjects,
               environment_variables |-> <<Flat(OtherVar, PathA)>>,
               last_selected_project |-> "proj"])}

InitStorage ==
    /\ InitCommon
    /\ \E f \in StorageInitFiles :
          files = [loc \in Locs |-> IF loc = Home THEN f ELSE MissingFile]
    /\ env = [n \in Names |-> Absent]
    /\ tree = NoTree
    /\ copied = "none"

NextStorage ==
    \/ \E p \in Projects, g \in Groups, s \in Settings, v \in PyValues, ok \in BOOLEAN :
          SetSettingValue(Home, p, g, s, v, ok)
    \/ \E p \in Projects, g \in Groups, s \in Settings, ok \in BOOLEAN :
          GetSetting(Home, p, g, s, ok)
    \/ \E p \in Projects, g \in Groups, gi \in GroupInputs, ok \in BOOLEAN :
          SetGroupConfig(Home, p, g, gi, ok)
    \/ \E p \in Projects, g \in Groups, ok \in BOOLEAN :
          ResetGroupToDefaults(Home, p, g, [s \in Settings |-> PyStr("x")], ok)
    \/ \E p \in Projects, pi \in ProjectInputs, ok \in BOOLEAN :
          SetProjectConfig(Home, p, pi, ok)
    \/ \E p \in Projects, ok \in BOOLEAN : DeleteProject(Home, p, ok)
    \/ \E ok \in BOOLEAN : SetLastSelectedProject(Home, "proj", ok)
    \/ \E ok \in BOOLEAN : Initialize(ok)
    \/ \E ok \in BOOLEAN : RegisterEnvironmentVariable(OtherVar, PathA, TRUE, ok)
    \/ \E ok \in BOOLEAN : UnregisterEnvironmentVariable(OtherVar, ok)

SpecStorage == InitStorage /\ [][NextStorage]_vars

(***************************************************************************)
(* Properties of the storage, checked under SpecStorage.                   *)
(***************************************************************************)
\* what a load of the file at Home returns
HomeConfig == LoadedConfig(files[Home])

StorageWrites ==
    {"set_setting_value", "set_group_config", "reset_group_to_defaults",
     "set_project_config", "delete_project", "set_last_selected_project"}

RegistryWrites == {"initialize", "register", "unregister"}

\* the call just made overwrites or deletes setting s of group g of project p
Overwrites(c, p, g, s) ==
    \/ c.op = "set_setting_value" /\ c.project = p /\ c.group = g /\ c.name = s
    \/ c.op \in {"set_group_config", "reset_group_to_defaults"}
          /\ c.project = p /\ c.group = g
    \/ c.op \in {"set_project_config", "delete_project"} /\ c.project = p

Root == "."
TreePaths == {"f", ".h", "~t", "l", ".d", ".d/g"}

\* the directory an entry lies in
Parent(p) == IF p = ".d/g" THEN ".d" ELSE Root

\* entry.name.startswith(".") or entry.name.startswith("~")
Hidden(p) == p \in {".h", "~t"}

NoEntry == [kind |-> "none", size |-> 0, ok |-> TRUE]
File(size, ok) == [kind |-> "file", size |-> size, ok |-> ok]
Dir(ok) == [kind |-> "dir", size |-> 0, ok |-> ok]
Link == [kind |-> "link", size |-> 0, ok |-> TRUE]

Files == {File(n, ok) : n \in 1..MaxFileSize, ok \in BOOLEAN}

SlotEntries(p) ==
    CASE p \in {"f", ".d/g"} -> {NoEntry} \cup Files
      [] p \in {".h", "~t"} -> {NoEntry, File(1, TRUE)}
      [] p = "l" -> {NoEntry, Link}
      [] OTHER -> {NoEntry, Dir(TRUE), Dir(FALSE)}

EmptyTree == [p \in TreePaths |-> NoEntry]

Trees ==
    {t \in [TreePaths -> {NoEntry, Link, Dir(TRUE), Dir(FALSE)} \cup Files] :
        /\ \A p \in TreePaths : t[p] \in SlotEntries(p)
        /\ t[".d"].kind # "dir" => t[".d/g"] = NoEntry}

\* the walk yields the entry at p: it is there and its directory is one the
\* walk lists (the root, or a directory os.scandir can open)
Scanned(t, p) ==
    /\ t[p].kind # "none"
    /\ Parent(p) = Root \/ (t[Parent(p)].kind = "dir" /\ t[Parent(p)].ok)

\* _count_and_size_bytes, lines 344-350: the files that are counted
Counted(t) ==
    {p \in TreePaths : Scanned(t, p) /\ t[p].kind = "file" /\ ~Hidden(p)}

RECURSIVE SumSizes(_, _)
SumSizes(t, ps) ==
    IF ps = {} THEN 0
    ELSE LET p == CHOOSE q \in ps : TRUE
         IN  t[p].size + SumSizes(t, ps \ {p})

\* _count_and_size_bytes(root_path): (file_count, total_size)
CountAndSizeBytes(t) == <<Cardinality(Counted(t)), SumSizes(t, Counted(t))>>

\* the directories the copy's loop pops before the user cancels
Walked(src, cancelAt) ==
    CASE cancelAt = "start" -> {}
      [] cancelAt = "after_root" -> {Root}
      [] OTHER -> {Root, ".d"}

\* the loop of lines 382-387 meets progress_dialog.cancelled set: at its
\* first turn, or at a later one when a directory is still on the stack
Cancelled(src, cancelAt) ==
    \/ cancelAt = "start"
    \/ cancelAt = "after_root" /\ src[".d"].kind = "dir"

\* _copy_sandbox_files, lines 393-419: what the loop leaves at p in an empty
\* destination; an entry that raises is skipped with a warning
CopiedEntry(src, cancelAt, p) ==
    IF ~Scanned(src, p) \/ Parent(p) \notin Walked(src, cancelAt) THEN NoEntry
    ELSE CASE src[p].kind = "dir" -> Dir(TRUE)
           [] src[p].kind = "file" /\ ~Hidden(p) /\ src[p].ok -> File(src[p].size, TRUE)
           [] OTHER -> NoEntry

\* _copy_sandbox_files(source_path, dest_path) into an empty destination
CopySandboxFiles(cancelAt) ==
    /\ last.op = "none"
    /\ LET src == tree.src
           none == CountAndSizeBytes(src)[1] = 0
       IN  /\ tree' = [tree EXCEPT !.dst =
                          IF none THEN @
                          ELSE [p \in TreePaths |-> CopiedEntry(src, cancelAt, p)]]
           /\ copied' = IF none \/ ~Cancelled(src, cancelAt) THEN "true" ELSE "false"
           /\ last' = Call("copy_sandbox_files", none \/ ~Cancelled(src, cancelAt))
    /\ UNCHANGED <<files, dirs, roots, faults>> /\ RegistryFrame /\ SessionFrame

\* _delete_old_sandbox(old_sandbox_path), offered after a copy that
\* returned True
DeleteOldSandbox ==
    /\ last.op = "copy_sandbox_files"
    /\ copied = "true"
    /\ tree' = [tree EXCEPT !.src = EmptyTree]
    /\ last' = Call("delete_old_sandbox", TRUE)
    /\ UNCHANGED <<files, dirs, roots, faults, copied>> /\ RegistryFrame /\ SessionFrame

InitCopy ==
    /\ InitCommon
    /\ files = [loc \in Locs |-> MissingFile]
    /\ env = [n \in Names |-> Absent]
    /\ \E t \in Trees : tree = [src |-> t, dst |-> EmptyTree]
    /\ copied = "none"

NextCopy ==
    \/ \E cancelAt \in {"never", "start", "after_root"} : CopySandboxFiles(cancelAt)
    \/ DeleteOldSandbox

SpecCopy == InitCopy /\ [][NextCopy]_vars

\* C4: whenever _copy_sandbox_files(source, dest) returns True for a
\* destination that was empty, _count_and_size_bytes(dest) equals
\* _count_and_size_bytes(source).
C4_CopyPreservesCountAndSize ==
    (last.op = "copy_sandbox_files" /\ last.ret) =>
        CountAndSizeBytes(tree.dst) = CountAndSizeBytes(tree.src)

(***************************************************************************)
(* The addon over several loads by the host process, with the sandbox      *)
(* migration.  Here every write the file system can take succeeds; a write *)
(* fails only when its directory is gone.                                  *)
(***************************************************************************)
\* what the user answers to the dialogs of execute_with_config
SandboxReplies ==
    {"no_migrate", "scan_cancelled", "no_files", "declined", "copy_cancelled",
     "copied_keep", "copied_delete"}

\* how far the copy got with <sandbox>/settings/localconfig.json: not to its
\* directory, to the directory only (the file is missing, was skipped on an
\* error, or the copy was cancelled before it), or to the file
CopyReaches == {"nothing", "dir", "file"}

\* SetAyonSandboxPathAction.execute_with_config with ayon_sandbox_folder set
\* to new
SetAyonSandboxPath(new, reply, reach) ==
    /\ Loaded
    /\ LET cur == ConfigLocation(env)
           raises == ~roots[cur] \/ ~roots[new]
           copies == reply \in {"copy_cancelled", "copied_keep", "copied_delete"}
           deletes == reply = "copied_delete"
           files1 == IF copies /\ reach = "file"
                     THEN [files EXCEPT ![new] = files[cur]] ELSE files
           dirs1 == IF copies /\ reach # "nothing"
                    THEN [dirs EXCEPT ![new] = TRUE] ELSE dirs
           files2 == IF deletes THEN [files1 EXCEPT ![cur] = MissingFile] ELSE files1
           dirs2 == IF deletes THEN [dirs1 EXCEPT ![cur] = FALSE] ELSE dirs1
           roots2 == IF deletes THEN [roots EXCEPT ![cur] = FALSE] ELSE roots
           reg == DictSet(registered, SandboxVar, new)
       IN  /\ reply = "no_files" => files[cur].kind = "missing"
           /\ reach = "file" => dirs[cur] /\ files[cur].kind # "missing"
           /\ reach = "dir" => dirs[cur]
           /\ (reach = "nothing" /\ reply \in {"copied_keep", "copied_delete"})
                 => ~dirs[cur]
           /\ IF raises \/ (cur # new /\ reply = "scan_cancelled")
              THEN /\ UNCHANGED <<files, dirs, roots, env, registered, mode>>
                   /\ last' = RegistryCall("set_sandbox_path", SandboxVar, new, TRUE, FALSE)
              ELSE IF cur = new
              THEN /\ RegisterEffect(SandboxVar, new, TRUE, TRUE)
                   /\ last' = RegistryCall("set_sandbox_path", SandboxVar, new, TRUE, TRUE)
                   /\ UNCHANGED <<dirs, roots>>
              ELSE /\ dirs' = dirs2
                   /\ roots' = roots2
                   /\ registered' = reg
                   /\ env' = [env EXCEPT ![SandboxVar] = new]
                   /\ files' = [files2 EXCEPT ![storageLoc] =
                                   AfterSave(AfterLoad(@, dirs2[storageLoc]),
                                             WithVars(LoadedConfig(@), reg),
                                             dirs2[storageLoc])]
                   /\ mode' = [mode EXCEPT ![SandboxVar] = "persistent"]
                   /\ last' = RegistryCall("set_sandbox_path", SandboxVar, new, TRUE, TRUE)
    /\ UNCHANGED <<loaded, storageLoc, faults, tree, copied>> /\ SessionFrame

\* the host process ends: os.environ and the global registry go with it,
\* the files stay; what this session registered for good is what the next
\* load is to bring back
EndSession ==
    /\ Loaded
    /\ session < MaxSessions
    /\ loaded' = FALSE
    /\ env' = [n \in Names |-> Absent]
    /\ registered' = <<>>
    /\ callbacks' = NoCallbacks
    /\ storageLoc' = Home
    /\ mode' = [n \in Names |-> "none"]
    /\ expected' = [n \in Names |->
                       IF mode[n] = "persistent" THEN DictGet(registered, n) ELSE Absent]
    /\ last' = Call("end_session", TRUE)
    /\ UNCHANGED <<files, dirs, roots, faults, session, tree, copied>>

InitSession ==
    /\ InitCommon
    /\ \E f \in {MissingFile,
                 JsonFile([DefaultConfig EXCEPT
                             !.environment_variables = <<Flat(UnityVar, PathB)>>])} :
          files = [loc \in Locs |-> IF loc = Home THEN f ELSE MissingFile]
    /\ env = [n \in Names |-> Absent]
    /\ tree = NoTree
    /\ copied = "none"

NextSession ==
    \/ Initialize(TRUE)
    \/ \E v \in GoodValues, p \in BOOLEAN :
          RegisterEnvironmentVariable(OtherVar, v, p, TRUE)
    \/ UnregisterEnvironmentVariable(OtherVar, TRUE)
    \/ ClearAllVariables(TRUE)
    \/ \E new \in Locs, reply \in SandboxReplies, reach \in CopyReaches :
          SetAyonSandboxPath(new, reply, reach)
    \/ EndSession

SpecSession == InitSession /\ [][NextSession]_vars

\* C7: a variable registered with persistent=True in one session, and not
\* unregistered or cleared afterwards, is set in os.environ to the same
\* value once initialize() has run in the next session.
C7_PersistAcrossLoads ==
    (last.op = "initialize" /\ session >= 2) =>
        \A n \in Names : expected[n] # Absent => env[n] = expected[n]

(***************************************************************************)
(* The registry's action callbacks.                                        *)
(***************************************************************************)
\* register_action_callback(action_name, callback): the callback is appended
\* to the list of the action name
RegisterActionCallback(a) ==
    /\ Loaded
    /\ callbacks[a] < MaxCallbacks
    /\ callbacks' = [callbacks EXCEPT ![a] = @ + 1]
    /\ last' = [Call("register_action_callback", TRUE) EXCEPT !.name = a]
    /\ UNCHANGED <<files, dirs, faults, session, expected>>
    /\ RegistryFrame /\ CopyFrame

InitCallbacks ==
    /\ InitCommon
    /\ \E f \in {MissingFile,
                 JsonFile([DefaultConfig EXCEPT
                             !.environment_variables = <<Nested(UnityVar, PathB)>>])} :
          files = [loc \in Locs |-> IF loc = Home THEN f ELSE MissingFile]
    /\ env \in PriorEnvs({UnityVar})
    /\ tree = NoTree
    /\ copied = "none"

NextCallbacks ==
    \/ \E ok \in BOOLEAN : Initialize(ok)
    \/ \E a \in ActionNames : RegisterActionCallback(a)
    \/ \E v \in GoodValues, p \in BOOLEAN, ok \in BOOLEAN :
          RegisterEnvironmentVariable(OtherVar, v, p, ok)
    \/ RestoreEnvironmentVariables

SpecCallbacks == InitCallbacks /\ [][NextCallbacks]_vars

\* C12: every restore_environment_variables call that follows
\* register_action_callback(action_name, callback) invokes the callback.
C12_RestoreCallsCallbacks ==
    last.op = "restore" =>
        \A a \in ActionNames : callbacks[a] > 0 => a \in last.called

(***************************************************************************)
(* The configuration window: a setting's widget reports a changed value.   *)
(***************************************************************************)
\* storage.py line 111: set_setting_value(self, group_id, setting_id, value)
\* takes three arguments
SetSettingValueParams == 3
\* config_window.py line 688: self.storage.set_setting_value(self.group_id,
\* setting_id, value, setting_type) passes four
SetSettingValueArgs == 4

\* the call of line 688 binds its arguments; Python raises TypeError when a
\* call passes more positional arguments than the method takes
CallBinds == SetSettingValueArgs <= SetSettingValueParams

\* ConfigGroupWidget._on_setting_changed(setting_id, value) of the group g of
\* a window on project p; action is the setting's action_name (Absent: it
\* has none).  Whatever line 688 or the lines after it raise is caught and
\* logged at lines 727-728.
OnSettingChanged(loc, p, g, s, v, action, ok) ==
    /\ Fault(ok, CallBinds)
    /\ IF CallBinds
       THEN /\ Stored(loc, WithSetting(LoadedConfig(files[loc]), p, g, s, v), ok)
            /\ last' = [StorageCall("on_setting_changed", p, g, s, v, CanWrite(loc, ok))
                          EXCEPT !.value = action,
                                 !.called = IF action = Absent THEN {} ELSE {action}]
       ELSE /\ UNCHANGED files
            /\ last' = [StorageCall("on_setting_changed", p, g, s, v, FALSE)
                          EXCEPT !.value = action]
    /\ UNCHANGED dirs /\ RegistryFrame /\ SessionFrame /\ CopyFrame

NextWindow ==
    \/ \E p \in Projects, g \in Groups, s \in Settings, v \in PyValues,
          action \in ActionNames \cup {Absent}, ok \in BOOLEAN :
          OnSettingChanged(Home, p, g, s, v, action, ok)
    \/ \E p \in Projects, g \in Groups, s \in Settings, v \in PyValues, ok \in BOOLEAN :
          SetSettingValue(Home, p, g, s, v, ok)
    \/ \E p \in Projects, ok \in BOOLEAN : DeleteProject(Home, p, ok)

SpecWindow == InitStorage /\ [][NextWindow]_vars

\* C13: when the user changes the value of a non-button setting, the new
\* value is saved under the current project, the group's id and the
\* setting's id, and then the setting's action, if it has one, is executed.
C13_ChangeSavesThenRuns ==
    last.op = "on_setting_changed" =>
        /\ GetSettingValue(files[Home], last.project, last.group, last.name)
              = JsonRoundTrip(last.pyvalue)
        /\ last.value # Absent => last.value \in last.called

(***************************************************************************)
(* The addon's tray life cycle, with the addon disabled in its settings.   *)
(***************************************************************************)
\* get_group_config("user_settings") holds the key s
InUserSettings(f, p, s) ==
    LET pc == LoadedConfig(f).projects[p]
    IN  /\ pc.present
        /\ pc.groups["user_settings"].present
        /\ pc.groups["user_settings"].settings[s] # NoJson

\* LocalConfigAddon.initialize with 'enabled' false: it returns at line 43
InitializeDisabled ==
    /\ ~loaded
    /\ session < MaxSessions
    /\ session' = session + 1
    /\ last' = Call("initialize_disabled", TRUE)
    /\ UNCHANGED <<files, dirs, faults, expected, callbacks>>
    /\ RegistryFrame /\ CopyFrame

\* LocalConfigAddon.tray_menu: the menu item is added when 'enabled' is true
\* (the result recorded is whether it was added)
TrayMenu(enabled) ==
    /\ session > 0
    /\ last' = Call("tray_menu", enabled)
    /\ UNCHANGED <<files, dirs, faults>>
    /\ RegistryFrame /\ SessionFrame /\ CopyFrame

\* LocalConfigAddon.tray_init of an addon whose current project is p: the
\* variables are restored when initialize built a registry (enabled, which
\* stands for self._environment_registry); then, enabled or not,
\* _initialize_environment_variables_from_settings builds a storage, reads
\* user_settings and runs SetAyonSandboxPathAction and
\* SetUnityProjectAction for the keys it finds.  The settings of the model
\* hold a list or the text "x", which names no directory: the sandbox action
\* raises in os.path.expanduser or os.path.samefile and ends at its own
\* except (lines 293-297); they hold no "auto open" switch, so the Unity
\* action unregisters, through a registry that get_environment_registry
\* builds when there is none.
TrayInit(enabled, p, ok) ==
    /\ session > 0
    /\ enabled => loaded
    /\ LET env1 == IF enabled THEN RestoreEnv(registered, env) ELSE env
           loc == ConfigLocation(env1)
           w == ok
           files1 == [files EXCEPT ![loc] = AfterLoad(@, w)]
           unity == InUserSettings(files1[loc], p, UnitySetting)
           builds == unity /\ ~loaded
           files2 == IF builds THEN [files1 EXCEPT ![loc] = AfterConstruct(@, w)]
                     ELSE files1
           sloc == IF builds THEN loc ELSE storageLoc
           reg == IF builds
                  THEN Migrate(LoadedConfig(files1[loc]).environment_variables)
                  ELSE registered
           ws == ok /\ (sloc = loc \/ dirs[sloc])
       IN  /\ Fault(ok, \/ files[loc].kind # "json"
                        \/ (builds /\ NeedsMigration(LoadedConfig(files1[loc]).environment_variables))
                        \/ (unity /\ DictHas(reg, UnityVar)))
           /\ dirs' = [dirs EXCEPT ![loc] = TRUE]
           /\ roots' = [roots EXCEPT ![loc] = TRUE]
           /\ loaded' = (loaded \/ unity)
           /\ storageLoc' = sloc
           /\ IF ~unity
              THEN /\ env' = env1
                   /\ files' = files1
                   /\ UNCHANGED <<registered, mode, callbacks>>
              ELSE /\ env' = [env1 EXCEPT ![UnityVar] = Absent]
                   /\ registered' = DictDel(reg, UnityVar)
                   /\ files' = IF DictHas(reg, UnityVar)
                               THEN [files2 EXCEPT ![sloc] =
                                       AfterSave(AfterLoad(@, ws),
                                                 WithVars(LoadedConfig(@), registered'),
                                                 ws)]
                               ELSE files2
                   /\ mode' = [mode EXCEPT ![UnityVar] = "none"]
                   /\ callbacks' = IF builds THEN NoCallbacks ELSE callbacks
    /\ last' = [Call("tray_init", TRUE) EXCEPT !.project = p]
    /\ UNCHANGED <<session, expected, tree, copied>>

\* the config files a disabled addon starts on: none, an unparseable one, or
\* one whose "default" project holds user_settings
DisabledInitFiles ==
    {MissingFile, CorruptFile}
    \cup {JsonFile([projects |-> [p \in Projects |->
                                     IF p = "default" THEN DumpProject(pi)
                                     ELSE NoProjectCfg],
                    environment_variables |-> m,
                    last_selected_project |-> "default"]) :
            pi \in {[g \in Groups |-> gi] : gi \in GroupInputs},
            m \in {<<>>, <<Flat(UnityVar, PathA)>>,
                   <<Nested(OtherVar, PathB), Flat(UnityVar, PathA)>>}}

InitDisabled ==
    /\ InitCommon
    /\ \E f \in DisabledInitFiles :
          files = [loc \in Locs |-> IF loc = Home THEN f ELSE MissingFile]
    /\ env \in PriorEnvs(SpecNames)
    /\ tree = NoTree
    /\ copied = "none"

NextDisabled ==
    \/ InitializeDisabled
    \/ TrayMenu(FALSE)
    \/ \E p \in Projects, ok \in BOOLEAN : TrayInit(FALSE, p, ok)

SpecDisabled == InitDisabled /\ [][NextDisabled]_vars

\* C14: with 'enabled' false, initialize() builds no registry, tray_menu()
\* adds no menu item, and initialize() and tray_init() leave os.environ and
\* the stored config as they were.
C14_DisabledDoesNothing ==
    [][/\ last'.op = "initialize_disabled" => ~loaded'
       /\ last'.op \in {"initialize_disabled", "tray_init"} =>
            /\ env' = env
            /\ files' = files
            /\ registered' = registered
       /\ last'.op = "tray_menu" => ~last'.ret]_vars

(***************************************************************************)
(* load_config and delete_project, checked under SpecStorage.              *)
(***************************************************************************)
\* C15: load_config returns the default structure and writes it to the file
\* when the file is missing or empty; it returns the content and writes
\* nothing when the file holds valid JSON; it returns the default structure
\* and leaves the file as it is when the file cannot be parsed.
C15_LoadKeepsUnreadable ==
    [][last'.op = "get_setting_value" =>
          /\ files[Home].kind # "json" => last'.pyvalue = PyNone
          /\ (files[Home].kind \in {"missing", "empty"}
                 /\ dirs[Home] /\ faults' = faults)
                => files'[Home] = JsonFile(DefaultConfig)
          /\ files[Home].kind = "json" => files' = files
          /\ files[Home].kind = "corrupt" => files' = files]_vars

=============================================================================
